---- MODULE Spec2Model ----
(***************************************************************************)
(* Model of src/main.ts: a rectangle bouncing inside a canvas, driven by   *)
(* an Application whose run() loop awaits one animation frame, updates     *)
(* every entity and repaints the canvas.                                   *)
(***************************************************************************)
EXTENDS Integers, Sequences, FiniteSets, TLC

VARIABLES
    canvasW,      \* Sizes.CANVAS_WIDTH  (window.innerWidth at load time)
    canvasH,      \* Sizes.CANVAS_HEIGHT (window.innerHeight at load time)
    rootPresent,  \* document.querySelector('div#root') finds an element
    canvas,       \* the canvas elements created by Application.create
    mounted,      \* the canvas has been appended to the root element
    app,          \* an Application object has been constructed
    err,          \* the Error thrown at startup, or NoError
    pc,           \* position of the program / of Application.run
    rafQueue,     \* callbacks registered with requestAnimationFrame
    tickResolved, \* the promise of tick() is resolved, run() not resumed yet
    entities,     \* Application.entities
    surface,      \* what has been drawn on the canvas since the last clear
    painted,      \* history: the surface at first and after each render pass
    hist,         \* history: the rectangle before the 1st, 2nd, ... update
    log           \* history: the calls made, in order

vars == <<canvasW, canvasH, rootPresent, canvas, mounted, app, err, pc,
          rafQueue, tickResolved, entities, surface, painted, hist, log>>

----------------------------------------------------------------------------
(* Bounds of the model *)

\* frames the refresh source delivers
MaxFrames == 12
\* update() calls applied to one input rectangle
MaxUnitSteps == 2
\* distance from a wall within which input positions are drawn
UnitMargin == 4

\* window sizes of the running program
Widths == {123, 125, 128, 129, 131, 132, 136}
Heights == {67, 69, 72, 73, 76, 80}

\* window sizes of the inputs of update()
UnitWidths == {126, 134, 1000}
UnitHeights == {70, 78}
UnitColorIndexes == {0, 7}

----------------------------------------------------------------------------
(* Sizes, Directions, colors *)

RECT_WIDTH == 128
RECT_HEIGHT == 72

\* Math.floor(w / 2 - RECT_WIDTH / 2); RECT_WIDTH is even, \div floors
rectCenterX(w) == (w - RECT_WIDTH) \div 2

rectCenterY(h) == (h - RECT_HEIGHT) \div 2

UP == -1
DOWN == 1
LEFT == -1
RIGHT == 1

\* bug: the third entry repeats the first
colorsDuplicate == <<"red", "green", "red", "yellow", "pink", "magenta", "orange", "white">>

colors == <<"red", "green", "blue", "yellow", "pink", "magenta", "orange", "white">>

\* colors[i] of the source, whose arrays are indexed from 0
colorAt(i) == colors[i + 1]

----------------------------------------------------------------------------
(* FlyingRectangle *)

InitialSpeed == 2

NewFlyingRectangle(w, h) ==
    [colorIndex |-> 0,
     color      |-> colorAt(0),
     speed      |-> InitialSpeed,
     x          |-> rectCenterX(w),
     y          |-> rectCenterY(h),
     xDir       |-> 1,
     yDir       |-> 1]

\* bug: the color is read before the index is incremented
updateColorStale(r) ==
    LET i == r.colorIndex + 1
    IN  [r EXCEPT !.colorIndex = i, !.color = colorAt(r.colorIndex % Len(colors))]

updateColor(r) ==
    LET i == r.colorIndex + 1
    IN  [r EXCEPT !.colorIndex = i, !.color = colorAt(i % Len(colors))]

HitsRight(r, w) == r.x + RECT_WIDTH >= w

HitsLeft(r) == r.x <= 0

HitsBottom(r, h) == r.y + RECT_HEIGHT >= h

HitsTop(r) == r.y <= 0

\* bug: the right wall is tested with > instead of >=
CollideRightStrict(r, w) ==
    IF r.x + RECT_WIDTH > w THEN updateColor([r EXCEPT !.xDir = LEFT]) ELSE r

\* bug: the right wall advances the color but does not turn the rectangle
CollideRightNoFlip(r, w) ==
    IF HitsRight(r, w) THEN updateColor(r) ELSE r

CollideRight(r, w) ==
    IF HitsRight(r, w) THEN updateColor([r EXCEPT !.xDir = LEFT]) ELSE r

\* bug: the left wall is detected one step early
CollideLeftEarly(r) ==
    IF r.x <= r.speed THEN updateColor([r EXCEPT !.xDir = RIGHT]) ELSE r

\* bug: the left wall advances the color but does not turn the rectangle
CollideLeftNoFlip(r) ==
    IF HitsLeft(r) THEN updateColor(r) ELSE r

CollideLeft(r) ==
    IF HitsLeft(r) THEN updateColor([r EXCEPT !.xDir = RIGHT]) ELSE r

\* bug: the bottom wall turns the rectangle but keeps the color
CollideBottomNoColor(r, h) ==
    IF HitsBottom(r, h) THEN [r EXCEPT !.yDir = UP] ELSE r

CollideBottom(r, h) ==
    IF HitsBottom(r, h) THEN updateColor([r EXCEPT !.yDir = UP]) ELSE r

\* bug: the top wall sets the direction of the other axis
CollideTopWrongAxis(r) ==
    IF HitsTop(r) THEN updateColor([r EXCEPT !.xDir = DOWN]) ELSE r

\* bug: the top wall is tested with < instead of <=
CollideTopStrict(r) ==
    IF r.y < 0 THEN updateColor([r EXCEPT !.yDir = DOWN]) ELSE r

CollideTop(r) ==
    IF HitsTop(r) THEN updateColor([r EXCEPT !.yDir = DOWN]) ELSE r

Move(r) ==
    [r EXCEPT !.x = r.x + r.xDir * r.speed, !.y = r.y + r.yDir * r.speed]

\* bug: the move is made before the four checks
FlyingRectangle_updateMoveFirst(r, w, h) ==
    CollideTop(CollideBottom(CollideLeft(CollideRight(Move(r), w)), h))

\* bug: the left check runs before the right check
FlyingRectangle_updateLeftFirst(r, w, h) ==
    Move(CollideTop(CollideBottom(CollideRight(CollideLeft(r), w), h)))

FlyingRectangle_update(r, w, h) ==
    Move(CollideTop(CollideBottom(CollideLeft(CollideRight(r, w)), h)))

\* beginPath, fillStyle = color, fillRect(x, y, RECT_WIDTH, RECT_HEIGHT)
FlyingRectangle_render(r, s) ==
    Append(s, [fill |-> r.color, x |-> r.x, y |-> r.y,
               width |-> RECT_WIDTH, height |-> RECT_HEIGHT])

----------------------------------------------------------------------------
(* Application *)

RECURSIVE RenderAll(_, _)
RenderAll(es, s) ==
    IF es = <<>> THEN s
    ELSE RenderAll(Tail(es), FlyingRectangle_render(Head(es), s))

\* bug: clear() erases nothing
Application_clearNothing(s) == s

\* clearRect(0, 0, CANVAS_WIDTH, CANVAS_HEIGHT): nothing drawn remains
Application_clear(s) == <<>>

\* bug: the loop of run() has an exit
LoopConditionFalse == FALSE

\* the condition of the loop of run(): while (true)
LoopCondition == TRUE

\* no Error has been thrown
NoError == [name |-> "none", message |-> ""]

\* new Error(message)
NewError(message) == [name |-> "Error", message |-> message]

\* document.createElement('canvas') with width, height and style set
NewCanvas(w, h, context) ==
    [width |-> w, height |-> h, style |-> "background: #000",
     context |-> context]

\* bug: the root element is not checked
QueryRootNoCheck ==
    /\ pc = "start"
    /\ pc' = "create"
    /\ err' = err
    /\ UNCHANGED <<canvasW, canvasH, rootPresent, canvas, mounted, app,
                   rafQueue, tickResolved, entities, surface, hist, log,
                   painted>>

\* the top level: look the root element up, throw when it is missing
QueryRoot ==
    /\ pc = "start"
    /\ IF rootPresent
       THEN /\ pc' = "create"
            /\ err' = err
       ELSE /\ pc' = "failed"
            /\ err' = NewError("Root element is missing")
    /\ UNCHANGED <<canvasW, canvasH, rootPresent, canvas, mounted, app,
                   rafQueue, tickResolved, entities, surface, hist, log,
                   painted>>

\* bug: the Application is constructed whatever getContext returns
Application_createNoCheck ==
    /\ pc = "create"
    /\ mounted' = TRUE
    /\ \E renderingContext \in BOOLEAN :
          canvas' = Append(canvas, NewCanvas(canvasW, canvasH, renderingContext))
    /\ app' = TRUE
    /\ pc' = "run"
    /\ err' = err
    /\ UNCHANGED <<canvasW, canvasH, rootPresent, rafQueue, tickResolved,
                   entities, surface, hist, log, painted>>

\* bug: the canvas is appended only once its context has been obtained
Application_createContextFirst ==
    /\ pc = "create"
    /\ \E renderingContext \in BOOLEAN :
          /\ canvas' = Append(canvas, NewCanvas(canvasW, canvasH, renderingContext))
          /\ IF renderingContext
             THEN /\ mounted' = TRUE
                  /\ app' = TRUE
                  /\ pc' = "run"
                  /\ err' = err
             ELSE /\ mounted' = mounted
                  /\ app' = app
                  /\ pc' = "failed"
                  /\ err' = NewError("Failed to retrieve rendering context")
    /\ UNCHANGED <<canvasW, canvasH, rootPresent, rafQueue, tickResolved,
                   entities, surface, hist, log, painted>>

\* Application.create: append the canvas, get the context, construct
Application_create ==
    /\ pc = "create"
    /\ mounted' = TRUE
    /\ \E renderingContext \in BOOLEAN :
          /\ canvas' = Append(canvas, NewCanvas(canvasW, canvasH, renderingContext))
          /\ IF renderingContext
             THEN /\ app' = TRUE
                  /\ pc' = "run"
                  /\ err' = err
             ELSE /\ app' = app
                  /\ pc' = "failed"
                  /\ err' = NewError("Failed to retrieve rendering context")
    /\ UNCHANGED <<canvasW, canvasH, rootPresent, rafQueue, tickResolved,
                   entities, surface, hist, log, painted>>

\* run() up to the loop: setup() pushes one FlyingRectangle
Application_setup ==
    /\ pc = "run"
    /\ entities' = Append(entities, NewFlyingRectangle(canvasW, canvasH))
    /\ hist' = <<NewFlyingRectangle(canvasW, canvasH)>>
    /\ log' = Append(log, "setup")
    /\ pc' = IF LoopCondition THEN "tick" ELSE "returned"
    /\ UNCHANGED <<canvasW, canvasH, rootPresent, canvas, mounted, app, err,
                   rafQueue, tickResolved, surface, painted>>

\* tick(): register a callback with requestAnimationFrame, run() suspends
tick ==
    /\ pc = "tick"
    /\ rafQueue' = rafQueue + 1
    /\ log' = Append(log, "tick")
    /\ pc' = "awaiting"
    /\ UNCHANGED <<canvasW, canvasH, rootPresent, canvas, mounted, app, err,
                   tickResolved, entities, surface, hist, painted>>

\* the display refreshes: one registered callback runs and resolves
RafFire ==
    /\ rafQueue > 0
    /\ Len(hist) <= MaxFrames
    /\ rafQueue' = rafQueue - 1
    /\ tickResolved' = TRUE
    /\ log' = Append(log, "refresh")
    /\ UNCHANGED <<canvasW, canvasH, rootPresent, canvas, mounted, app, err,
                   pc, entities, surface, hist, painted>>

\* bug: the next frame is requested when the frame starts, not when it ends
Application_updateRequestsFirst ==
    /\ pc = "awaiting"
    /\ tickResolved
    /\ tickResolved' = FALSE
    /\ rafQueue' = rafQueue + 1
    /\ entities' = [i \in 1..Len(entities) |->
                       FlyingRectangle_update(entities[i], canvasW, canvasH)]
    /\ hist' = Append(hist, entities'[1])
    /\ log' = Append(log, "update")
    /\ pc' = "render"
    /\ UNCHANGED <<canvasW, canvasH, rootPresent, canvas, mounted, app, err,
                   surface, painted>>

\* run() resumes after the await and calls update()
Application_update ==
    /\ pc = "awaiting"
    /\ tickResolved
    /\ tickResolved' = FALSE
    /\ entities' = [i \in 1..Len(entities) |->
                       FlyingRectangle_update(entities[i], canvasW, canvasH)]
    /\ hist' = Append(hist, entities'[1])
    /\ log' = Append(log, "update")
    /\ pc' = "render"
    /\ UNCHANGED <<canvasW, canvasH, rootPresent, canvas, mounted, app, err,
                   rafQueue, surface, painted>>

\* bug: the entities render first and the surface is cleared after them
Application_renderThenClear ==
    /\ pc = "render"
    /\ surface' = Application_clear(RenderAll(entities, surface))
    /\ painted' = Append(painted, surface')
    /\ log' = log \o <<"render", "clear">>
    /\ pc' = IF LoopCondition THEN "tick" ELSE "returned"
    /\ UNCHANGED <<canvasW, canvasH, rootPresent, canvas, mounted, app, err,
                   rafQueue, tickResolved, entities, hist>>

\* bug: rendering an entity also advances it
Application_renderMoves ==
    /\ pc = "render"
    /\ surface' = RenderAll(entities, Application_clear(surface))
    /\ painted' = Append(painted, surface')
    /\ entities' = [i \in 1..Len(entities) |-> Move(entities[i])]
    /\ log' = log \o <<"clear", "render">>
    /\ pc' = IF LoopCondition THEN "tick" ELSE "returned"
    /\ UNCHANGED <<canvasW, canvasH, rootPresent, canvas, mounted, app, err,
                   rafQueue, tickResolved, hist>>

\* render(): clear(), then every entity renders; then the loop goes round
Application_render ==
    /\ pc = "render"
    /\ surface' = RenderAll(entities, Application_clear(surface))
    /\ painted' = Append(painted, surface')
    /\ log' = log \o <<"clear", "render">>
    /\ pc' = IF LoopCondition THEN "tick" ELSE "returned"
    /\ UNCHANGED <<canvasW, canvasH, rootPresent, canvas, mounted, app, err,
                   rafQueue, tickResolved, entities, hist>>

Init ==
    /\ canvasW \in Widths
    /\ canvasH \in Heights
    /\ rootPresent \in BOOLEAN
    /\ canvas = <<>>
    /\ mounted = FALSE
    /\ app = FALSE
    /\ err = NoError
    /\ pc = "start"
    /\ rafQueue = 0
    /\ tickResolved = FALSE
    /\ entities = <<>>
    /\ surface = <<>>
    /\ painted = <<surface>>
    /\ hist = <<>>
    /\ log = <<>>

Next ==
    \/ QueryRoot
    \/ Application_create
    \/ Application_setup
    \/ tick
    \/ RafFire
    \/ Application_update
    \/ Application_render

Spec == Init /\ [][Next]_vars

\* the refresh source keeps firing and a resumed run() runs on
LiveSpec == Spec /\ WF_vars(Next)

----------------------------------------------------------------------------
(* update() on its own, applied to any rectangle near the walls *)

NearWall(v, limit) ==
    \/ (v >= -UnitMargin /\ v <= UnitMargin)
    \/ (v >= limit - UnitMargin /\ v <= limit + UnitMargin)

UnitXs(w) == {v \in (-UnitMargin)..(w + UnitMargin) : NearWall(v, w - RECT_WIDTH)}

UnitYs(h) == {v \in (-UnitMargin)..(h + UnitMargin) : NearWall(v, h - RECT_HEIGHT)}

UnitRects(w, h) ==
    {[colorIndex |-> ci, color |-> colorAt(ci % Len(colors)),
      speed |-> InitialSpeed, x |-> vx, y |-> vy, xDir |-> dx, yDir |-> dy] :
        ci \in UnitColorIndexes, vx \in UnitXs(w), vy \in UnitYs(h),
        dx \in {LEFT, RIGHT}, dy \in {UP, DOWN}}

UnitInit ==
    /\ canvasW \in UnitWidths
    /\ canvasH \in UnitHeights
    /\ rootPresent = TRUE
    /\ canvas = <<NewCanvas(canvasW, canvasH, TRUE)>>
    /\ mounted = TRUE
    /\ app = TRUE
    /\ err = NoError
    /\ pc = "unit"
    /\ rafQueue = 0
    /\ tickResolved = FALSE
    /\ \E r \in UnitRects(canvasW, canvasH) :
          /\ entities = <<r>>
          /\ hist = <<r>>
    /\ surface = <<>>
    /\ painted = <<surface>>
    /\ log = <<>>

UnitUpdate ==
    /\ pc = "unit"
    /\ Len(hist) <= MaxUnitSteps
    /\ entities' = [i \in 1..Len(entities) |->
                       FlyingRectangle_update(entities[i], canvasW, canvasH)]
    /\ hist' = Append(hist, entities'[1])
    /\ log' = Append(log, "update")
    /\ UNCHANGED <<canvasW, canvasH, rootPresent, canvas, mounted, app, err,
                   pc, rafQueue, tickResolved, surface, painted>>

UnitNext == UnitUpdate

UnitSpec == UnitInit /\ [][UnitNext]_vars

----------------------------------------------------------------------------
(* render() on its own, applied to any rectangle and any earlier drawing *)

\* render passes applied to one input
MaxUnitRenders == 2

\* what the surface may hold before a render pass
PriorSurfaces ==
    {<<>>,
     <<[fill |-> "white", x |-> 0, y |-> 0,
        width |-> RECT_WIDTH, height |-> RECT_HEIGHT]>>,
     <<[fill |-> "red", x |-> 3, y |-> 1,
        width |-> RECT_WIDTH, height |-> RECT_HEIGHT],
       [fill |-> "green", x |-> 5, y |-> 3,
        width |-> RECT_WIDTH, height |-> RECT_HEIGHT]>>}

RenderInit ==
    /\ canvasW \in UnitWidths
    /\ canvasH \in UnitHeights
    /\ rootPresent = TRUE
    /\ canvas = <<NewCanvas(canvasW, canvasH, TRUE)>>
    /\ mounted = TRUE
    /\ app = TRUE
    /\ err = NoError
    /\ pc = "unit"
    /\ rafQueue = 0
    /\ tickResolved = FALSE
    /\ \E r \in UnitRects(canvasW, canvasH) :
          /\ entities = <<r>>
          /\ hist = <<r>>
    /\ surface \in PriorSurfaces
    /\ painted = <<surface>>
    /\ log = <<>>

UnitRender ==
    /\ pc = "unit"
    /\ Len(painted) <= MaxUnitRenders
    /\ surface' = RenderAll(entities, Application_clear(surface))
    /\ painted' = Append(painted, surface')
    /\ log' = log \o <<"clear", "render">>
    /\ UNCHANGED <<canvasW, canvasH, rootPresent, canvas, mounted, app, err,
                   pc, rafQueue, tickResolved, entities, hist>>

RenderNext == UnitRender

RenderSpec == RenderInit /\ [][RenderNext]_vars

----------------------------------------------------------------------------
(* Properties *)

\* the rectangle touches no wall at the start of an update()
Interior(r, w, h) ==
    /\ 0 < r.x /\ r.x < w - RECT_WIDTH
    /\ 0 < r.y /\ r.y < h - RECT_HEIGHT

HitsX(r, w) == HitsRight(r, w) \/ HitsLeft(r)

HitsY(r, h) == HitsBottom(r, h) \/ HitsTop(r)

\* C1: an update() that starts with 0 < x < canvasW - RECT_WIDTH and
\* 0 < y < canvasH - RECT_HEIGHT moves the rectangle by exactly
\* (xDir * speed, yDir * speed) and leaves colorIndex and color unchanged.
C1_InteriorStep ==
    \A i \in 1..(Len(hist) - 1) :
        Interior(hist[i], canvasW, canvasH) =>
            /\ hist[i + 1].x = hist[i].x + hist[i].xDir * hist[i].speed
            /\ hist[i + 1].y = hist[i].y + hist[i].yDir * hist[i].speed
            /\ hist[i + 1].colorIndex = hist[i].colorIndex
            /\ hist[i + 1].color = hist[i].color

C1_Witness ==
    /\ pc = "unit"
    /\ Len(hist) >= 2
    /\ Interior(hist[1], canvasW, canvasH)
    /\ hist[2].x # hist[1].x

\* the rectangle of the boundary example: canvas 1000 wide, x = 874, moving right
BoundaryExample ==
    /\ pc = "unit"
    /\ canvasW = 1000
    /\ hist[1].x = 874
    /\ hist[1].xDir = RIGHT

\* C2 as stated: from x = 874 moving right in a canvas 1000 wide, the next
\* update() gives x = 876.
C2_Original ==
    (BoundaryExample /\ Len(hist) >= 2) => hist[2].x = 876

\* C2 as amended: from x = 874 moving right in a canvas 1000 wide, the right
\* check already holds (874 + 128 = 1002 >= 1000), so the next update() turns
\* the rectangle LEFT, gives x = 872 and, when no y check holds in that call,
\* advances colorIndex by exactly 1; the update() after it gives x = 870.
C2_BoundaryExample ==
    BoundaryExample =>
        /\ Len(hist) >= 2 =>
              /\ hist[2].x = 872
              /\ hist[2].xDir = LEFT
              /\ ~HitsY(hist[1], canvasH) =>
                    hist[2].colorIndex = hist[1].colorIndex + 1
        /\ Len(hist) >= 3 => hist[3].x = 870

C2_Witness ==
    /\ BoundaryExample
    /\ Len(hist) = 3
    /\ ~HitsY(hist[1], canvasH)
    /\ hist[2].colorIndex = hist[1].colorIndex + 1
    /\ hist[3].x = 870

\* the position bounds of the data model: [-speed, canvas dimension]
InBounds(r, w, h) ==
    /\ -r.speed <= r.x /\ r.x <= w
    /\ -r.speed <= r.y /\ r.y <= h

\* C3 as stated: at the start of every update() the position satisfies
\* -speed <= x <= canvasW and -speed <= y <= canvasH.
C3_Original ==
    \A i \in 1..Len(entities) : InBounds(entities[i], canvasW, canvasH)

\* the canvas is at most 2 * speed smaller than the rectangle on each axis
CanvasHoldsCenter ==
    /\ canvasW >= RECT_WIDTH - 2 * InitialSpeed
    /\ canvasH >= RECT_HEIGHT - 2 * InitialSpeed

\* C3 as amended: when canvasW >= RECT_WIDTH - 2 * speed and
\* canvasH >= RECT_HEIGHT - 2 * speed, at the start of every update() the
\* position satisfies -speed <= x <= canvasW and -speed <= y <= canvasH.
C3_PositionBounds ==
    CanvasHoldsCenter =>
        \A i \in 1..Len(entities) : InBounds(entities[i], canvasW, canvasH)

C3_Witness ==
    /\ CanvasHoldsCenter
    /\ canvasW < RECT_WIDTH
    /\ Len(hist) >= 4
    /\ hist[1].x = -hist[1].speed
    /\ entities[1].x = hist[4].x

\* the rectangle has been constructed at the centered position
Centered ==
    /\ Len(hist) >= 1
    /\ hist[1] = NewFlyingRectangle(canvasW, canvasH)

\* the update() from hist[i] to hist[i + 1] observes the right wall
RightWallStep(i) ==
    HitsRight(hist[i], canvasW) =>
        /\ hist[i + 1].xDir = LEFT
        /\ ~HitsY(hist[i], canvasH) =>
              hist[i + 1].colorIndex = hist[i].colorIndex + 1

\* C4 as stated: from the centered start the rectangle eventually has
\* x + RECT_WIDTH >= canvasW, and the update() that observes it leaves
\* xDir = -1 and, when no y check holds in that call, colorIndex + 1.
C4_Original ==
    /\ (Len(hist) = 1) ~> (Len(entities) = 1 /\ HitsRight(entities[1], canvasW))
    /\ [](\A i \in 1..(Len(hist) - 1) : RightWallStep(i))

\* C4 as amended: from the centered start the rectangle eventually has
\* x + RECT_WIDTH >= canvasW; when canvasW > RECT_WIDTH the update() that
\* observes it leaves xDir = -1 and, when no y check holds in that call,
\* colorIndex + 1.
C4_RightWall ==
    /\ (Len(hist) = 1) ~> (Len(entities) = 1 /\ HitsRight(entities[1], canvasW))
    /\ [](canvasW > RECT_WIDTH =>
             \A i \in 1..(Len(hist) - 1) : RightWallStep(i))

C4_Witness ==
    /\ Centered
    /\ canvasW > RECT_WIDTH
    /\ ~HitsRight(hist[1], canvasW)
    /\ \E i \in 1..(Len(hist) - 1) :
          /\ HitsRight(hist[i], canvasW)
          /\ ~HitsY(hist[i], canvasH)
          /\ hist[i + 1].xDir = LEFT
          /\ hist[i + 1].colorIndex = hist[i].colorIndex + 1

\* how many of the four checks hold at the start of an update()
Bit(b) == IF b THEN 1 ELSE 0

ChecksHolding(r, w, h) ==
    Bit(HitsRight(r, w)) + Bit(HitsLeft(r)) + Bit(HitsBottom(r, h)) + Bit(HitsTop(r))

\* C5 as stated: an update() that starts with an x check and a y check both
\* holding advances colorIndex by exactly 2.
C5_Original ==
    \A i \in 1..(Len(hist) - 1) :
        (HitsX(hist[i], canvasW) /\ HitsY(hist[i], canvasH)) =>
            hist[i + 1].colorIndex = hist[i].colorIndex + 2

\* C5 as amended: an update() that starts with an x check and a y check both
\* holding advances colorIndex by the number of checks that hold, which is
\* exactly 2 when canvasW > RECT_WIDTH and canvasH > RECT_HEIGHT.
C5_CornerHit ==
    \A i \in 1..(Len(hist) - 1) :
        (HitsX(hist[i], canvasW) /\ HitsY(hist[i], canvasH)) =>
            /\ hist[i + 1].colorIndex =
                  hist[i].colorIndex + ChecksHolding(hist[i], canvasW, canvasH)
            /\ (canvasW > RECT_WIDTH /\ canvasH > RECT_HEIGHT) =>
                  hist[i + 1].colorIndex = hist[i].colorIndex + 2

C5_Witness ==
    /\ canvasW > RECT_WIDTH
    /\ canvasH > RECT_HEIGHT
    /\ \E i \in 1..(Len(hist) - 1) :
          /\ HitsRight(hist[i], canvasW)
          /\ HitsBottom(hist[i], canvasH)
          /\ hist[i + 1].colorIndex = hist[i].colorIndex + 2

\* C6: the color shown is always colors[colorIndex mod 8]; so at
\* colorIndex = 8, eight advances after index 0, it is the first color again.
C6_ColorCycle ==
    /\ Len(colors) = 8
    /\ \A i \in 1..Len(entities) :
          /\ entities[i].color = colors[(entities[i].colorIndex % 8) + 1]
          /\ entities[i].colorIndex = 8 => entities[i].color = colors[1]

C6_Witness ==
    /\ Centered
    /\ Len(entities) = 1
    /\ entities[1].colorIndex = 8
    /\ entities[1].color = "red"
    /\ \E i \in 1..Len(hist) : hist[i].color # "red"

\* C7: an update() in which at least one check fires changes the color
\* shown; an update() in which none fires keeps it.
C7_ColorChange ==
    \A i \in 1..(Len(hist) - 1) :
        IF HitsX(hist[i], canvasW) \/ HitsY(hist[i], canvasH)
        THEN hist[i + 1].color # hist[i].color
        ELSE hist[i + 1].color = hist[i].color

C7_Witness ==
    /\ Centered
    /\ \E i, j \in 1..(Len(hist) - 1) :
          /\ ChecksHolding(hist[i], canvasW, canvasH) = 2
          /\ hist[i + 1].color # hist[i].color
          /\ ChecksHolding(hist[j], canvasW, canvasH) = 0
          /\ hist[j + 1].color = hist[j].color

\* the calls of one iteration of the loop of run(), in order
FrameCalls == <<"tick", "refresh", "update", "clear", "render">>

\* the k-th call of a run: setup() once, then iteration after iteration
ExpectedCall(k) ==
    IF k = 1 THEN "setup" ELSE FrameCalls[((k - 2) % Len(FrameCalls)) + 1]

\* C8: run() calls setup() exactly once, before any frame; every iteration
\* then waits for one refresh, updates every entity, clears the surface and
\* renders every entity, in this order: no update precedes the first
\* refresh, each refresh is followed by exactly one update pass and one
\* render pass, and a render pass leaves one fill per entity on the surface.
C8_FrameOrder ==
    /\ \A k \in 1..Len(log) : log[k] = ExpectedCall(k)
    /\ Len(log) >= 1 => Len(entities) = 1
    /\ (Len(log) >= 1 /\ log[Len(log)] = "render") =>
          surface = RenderAll(entities, <<>>)

C8_Witness ==
    /\ Len(log) = 11
    /\ log[1] = "setup"
    /\ log[Len(log)] = "render"
    /\ Len(surface) = 1
    /\ Len(hist) = 3

\* run() has been called
Running == app /\ pc # "run"

\* C9: run() never terminates, and while the refresh source fires (the
\* first MaxFrames frames) each frame is followed by another whose update()
\* and render() both complete.
C9_LoopForever ==
    /\ [](Running => pc \in {"tick", "awaiting", "render"})
    /\ \A n \in 1..MaxFrames :
          (Len(hist) = n) ~>
             (Len(hist) = n + 1 /\ pc = "tick" /\ log[Len(log)] = "render")

C9_Witness ==
    /\ Running
    /\ Len(hist) = MaxFrames + 1
    /\ pc = "tick"
    /\ log[Len(log)] = "render"

\* C10: at most one refresh callback is pending or resolved at a time and
\* only while run() is suspended at its await, so no update() or render()
\* runs meanwhile; a refresh is requested only right after setup() or after
\* a render pass.
C10_SingleTask ==
    /\ rafQueue + Bit(tickResolved) <= 1
    /\ rafQueue + Bit(tickResolved) = 1 <=> pc = "awaiting"
    /\ \A k \in 2..Len(log) :
          log[k] = "tick" => log[k - 1] \in {"setup", "render"}
    /\ \A k \in 2..Len(log) :
          log[k] = "refresh" => log[k - 1] = "tick"

C10_Witness ==
    /\ pc = "awaiting"
    /\ rafQueue = 0
    /\ tickResolved
    /\ Len(hist) >= 3
    /\ log[Len(log) - 2] = "render"

\* nothing of the frame loop has run
LoopNeverRan ==
    /\ ~app
    /\ entities = <<>>
    /\ hist = <<>>
    /\ log = <<>>
    /\ rafQueue = 0
    /\ ~tickResolved
    /\ surface = <<>>

\* without a root element: no canvas, no Application, no frame
NothingBuilt ==
    /\ canvas = <<>>
    /\ ~mounted
    /\ LoopNeverRan
    /\ pc \in {"start", "failed"}

\* C11 as stated: without a root element startup fails with
\* SetupError("root element missing"); no canvas is created, no Application
\* exists and the frame loop never runs.
C11_Original ==
    ~rootPresent =>
        /\ NothingBuilt
        /\ pc = "failed" =>
              err = [name |-> "SetupError", message |-> "root element missing"]

\* C11 as amended: without a root element startup fails with
\* Error("Root element is missing"); no canvas is created, no Application
\* exists and the frame loop never runs.
C11_RootMissing ==
    ~rootPresent =>
        /\ NothingBuilt
        /\ pc = "failed" =>
              err = [name |-> "Error", message |-> "Root element is missing"]
        /\ pc = "start" => err = NoError

C11_Witness ==
    /\ ~rootPresent
    /\ pc = "failed"
    /\ err.name = "Error"
    /\ err.message = "Root element is missing"
    /\ canvas = <<>>

\* getContext('2d') returned null for the canvas that create() made
ContextMissing == canvas # <<>> /\ ~canvas[1].context

\* C12 as stated: when no 2D context is obtained, create() fails with
\* SetupError("failed to retrieve rendering context"); no Application is
\* returned and the frame loop never starts.
C12_Original ==
    ContextMissing =>
        /\ pc = "failed"
        /\ err = [name |-> "SetupError",
                  message |-> "failed to retrieve rendering context"]
        /\ LoopNeverRan

\* C12 as amended: when no 2D context is obtained, create() fails with
\* Error("Failed to retrieve rendering context"); no Application is returned
\* and the frame loop never starts.
C12_ContextMissing ==
    ContextMissing =>
        /\ pc = "failed"
        /\ err = [name |-> "Error",
                  message |-> "Failed to retrieve rendering context"]
        /\ LoopNeverRan

C12_Witness ==
    /\ rootPresent
    /\ ContextMissing
    /\ pc = "failed"
    /\ err.message = "Failed to retrieve rendering context"
    /\ ~app

\* C13: a render pass (clear, then render of every entity) leaves every
\* field of every entity unchanged; of the program's state only the surface
\* changes.
C13_RenderPure ==
    [][pc = "render" =>
          /\ entities' = entities
          /\ <<canvasW, canvasH, canvas, mounted, app, err, rafQueue>>' =
                <<canvasW, canvasH, canvas, mounted, app, err, rafQueue>>]_vars

C13_Witness ==
    /\ Len(painted) >= 3
    /\ log[Len(log)] = "render"
    /\ surface # painted[Len(painted) - 1]
    /\ entities[1] = hist[Len(hist)]
    /\ entities[1].colorIndex > 0

\* the one fill that render() of the rectangle r leaves
FillOf(r) ==
    [fill |-> r.color, x |-> r.x, y |-> r.y,
     width |-> RECT_WIDTH, height |-> RECT_HEIGHT]

\* C14: whatever the surface held, after a render pass it holds exactly one
\* fill of RECT_WIDTH x RECT_HEIGHT at (x, y) in the current color, and a
\* second render pass with the entity unchanged leaves the same surface.
C14_RenderIdempotent ==
    \A i \in 2..Len(painted) :
        /\ painted[i] = <<FillOf(entities[1])>>
        /\ i >= 3 => painted[i] = painted[i - 1]

C14_Witness ==
    /\ Len(painted) = 3
    /\ Len(painted[1]) = 2
    /\ painted[2] # painted[1]
    /\ painted[3] = painted[2]
    /\ surface = painted[3]

\* C19: when create() fails for lack of a context, the canvas it made is
\* already attached to the root element although no Application exists.
C19_CanvasStaysAttached ==
    ContextMissing =>
        /\ mounted
        /\ ~app
        /\ Len(canvas) = 1
        /\ canvas[1].width = canvasW
        /\ canvas[1].height = canvasH

C19_Witness ==
    /\ ContextMissing
    /\ mounted
    /\ ~app
    /\ err # NoError

\* the canvas is larger than the rectangle on both axes
CanvasLarger == canvasW > RECT_WIDTH /\ canvasH > RECT_HEIGHT

\* the directions an update() leaves, as the checks of each axis decide them
XDirAfter(r, w) ==
    IF HitsLeft(r) THEN RIGHT ELSE IF HitsRight(r, w) THEN LEFT ELSE r.xDir

YDirAfter(r, h) ==
    IF HitsTop(r) THEN DOWN ELSE IF HitsBottom(r, h) THEN UP ELSE r.yDir

\* C15: each direction is always -1 or +1; the rectangle changes only in
\* update(), where xDir is decided by the x checks alone and yDir by the y
\* checks alone, and a direction whose axis has no check firing is kept.
C15_Directions ==
    /\ \A i \in 1..Len(hist) :
          /\ hist[i].xDir \in {-1, 1}
          /\ hist[i].yDir \in {-1, 1}
    /\ \A i \in 1..(Len(hist) - 1) :
          /\ hist[i + 1].xDir = XDirAfter(hist[i], canvasW)
          /\ hist[i + 1].yDir = YDirAfter(hist[i], canvasH)
          /\ ~HitsX(hist[i], canvasW) => hist[i + 1].xDir = hist[i].xDir
          /\ ~HitsY(hist[i], canvasH) => hist[i + 1].yDir = hist[i].yDir
    /\ Len(entities) = 1 =>
          /\ entities[1].xDir = hist[Len(hist)].xDir
          /\ entities[1].yDir = hist[Len(hist)].yDir

C15_Witness ==
    /\ Centered
    /\ \E i, j \in 1..(Len(hist) - 1) :
          /\ HitsX(hist[i], canvasW)
          /\ ~HitsY(hist[i], canvasH)
          /\ hist[i + 1].xDir # hist[i].xDir
          /\ hist[i + 1].yDir = hist[i].yDir
          /\ HitsTop(hist[j])
          /\ ~HitsX(hist[j], canvasW)
          /\ hist[j].xDir = LEFT
          /\ hist[j + 1].xDir = LEFT

\* C16: update() checks right, left, bottom, top and then moves with the
\* directions the checks left: when both checks of an axis hold the later
\* one wins (xDir = RIGHT, yDir = DOWN), and colorIndex advances once for
\* each check that holds.
C16_CheckOrder ==
    \A i \in 1..(Len(hist) - 1) :
        /\ (HitsRight(hist[i], canvasW) /\ HitsLeft(hist[i])) =>
              hist[i + 1].xDir = RIGHT
        /\ (HitsBottom(hist[i], canvasH) /\ HitsTop(hist[i])) =>
              hist[i + 1].yDir = DOWN
        /\ (HitsRight(hist[i], canvasW) /\ ~HitsLeft(hist[i])) =>
              hist[i + 1].xDir = LEFT
        /\ (HitsBottom(hist[i], canvasH) /\ ~HitsTop(hist[i])) =>
              hist[i + 1].yDir = UP
        /\ hist[i + 1].x = hist[i].x + hist[i + 1].xDir * hist[i].speed
        /\ hist[i + 1].y = hist[i].y + hist[i + 1].yDir * hist[i].speed
        /\ hist[i + 1].colorIndex =
              hist[i].colorIndex + ChecksHolding(hist[i], canvasW, canvasH)

C16_Witness ==
    /\ pc = "unit"
    /\ Len(hist) >= 2
    /\ HitsRight(hist[1], canvasW)
    /\ HitsLeft(hist[1])
    /\ hist[1].xDir = LEFT
    /\ hist[2].xDir = RIGHT
    /\ hist[2].x = hist[1].x + hist[1].speed
    /\ hist[2].colorIndex >= hist[1].colorIndex + 2

\* C17: in a canvas larger than the rectangle, no check fires in two
\* consecutive update() calls of a run from the centered start.
C17_NoRepeatedWall ==
    CanvasLarger =>
        \A i \in 1..(Len(hist) - 1) :
            /\ ~(HitsRight(hist[i], canvasW) /\ HitsRight(hist[i + 1], canvasW))
            /\ ~(HitsLeft(hist[i]) /\ HitsLeft(hist[i + 1]))
            /\ ~(HitsBottom(hist[i], canvasH) /\ HitsBottom(hist[i + 1], canvasH))
            /\ ~(HitsTop(hist[i]) /\ HitsTop(hist[i + 1]))

C17_Witness ==
    /\ Centered
    /\ CanvasLarger
    /\ \E i \in 1..(Len(hist) - 2) :
          /\ HitsRight(hist[i], canvasW)
          /\ ~HitsY(hist[i], canvasH)
          /\ ~HitsRight(hist[i + 1], canvasW)
          /\ hist[i + 1].colorIndex = hist[i].colorIndex + 1
          /\ hist[i + 2].x < hist[i + 1].x

\* C18: in a canvas larger than the rectangle, the rectangle is always less
\* than speed beyond a wall: -speed < x < canvasW - RECT_WIDTH + speed and
\* -speed < y < canvasH - RECT_HEIGHT + speed.
C18_Overshoot ==
    CanvasLarger =>
        \A i \in 1..Len(entities) :
            /\ -entities[i].speed < entities[i].x
            /\ entities[i].x < canvasW - RECT_WIDTH + entities[i].speed
            /\ -entities[i].speed < entities[i].y
            /\ entities[i].y < canvasH - RECT_HEIGHT + entities[i].speed

C18_Witness ==
    /\ Centered
    /\ CanvasLarger
    /\ Len(entities) = 1
    /\ entities[1].x < 0
    /\ Len(hist) >= 4

====
